---- MODULE Spec2Model ----
(***************************************************************************)
(* The explicit-path backend of libinput (src/src/path-seat.c): the path   *)
(* registry (path_list), the seat registry (seat_list), and the            *)
(* enable/disable/change-seat operations on them.  The code is             *)
(* single-threaded; every operation is modelled as the sequence of its     *)
(* steps, pc being the position of the one thread of control.              *)
(***************************************************************************)
EXTENDS Integers, Sequences, FiniteSets, TLC

\* ---------------------------------------------------------------- bounds
MaxPaths == 2
MaxDevs == 2

\* ------------------------------------------------------------- constants
NULL == 0
END == 0
EVDEV_UNHANDLED_DEVICE == -1
NullStr == "(null)"
default_seat == "seat0"
default_seat_name == "default"

Devnodes == { <<"/", "dev", "/", "event3">>, <<"event4">> }
LogicalNames == { "default", "alt" }

\* Heap objects are named by numbers.  A devnode string is named by its
\* address; a device by an address of the block reserved for devices made from
\* that devnode address; a seat by an address of the block reserved for seats
\* of that logical name.  The allocator returns the lowest free address of the
\* block, so a freed address is handed out again.
Addrs == 1..MaxPaths
SeatCopies == MaxDevs + 1
SeatIds == 1..(Cardinality(LogicalNames) * SeatCopies)
DevIds == 1..(MaxPaths * MaxDevs)
SeatBlock(logical) ==
  IF logical = default_seat_name THEN 1..SeatCopies
  ELSE (SeatCopies + 1)..(2 * SeatCopies)
DevBlock(p) == ((p - 1) * MaxDevs + 1)..(p * MaxDevs)

VARIABLES
  path_list,   \* input->path_list: sequence of path_device records, head first
  seat_list,   \* input->base.seat_list: sequence of seat ids, head first
  seat,        \* SeatIds -> the seat object at that id (FreeSeat when not allocated)
  device,      \* DevIds -> the evdev device at that id (FreeDev when not allocated)
  pc,          \* position of the thread of control
  op,          \* the API call in progress
  a_devnode,   \* argument: devnode string of path_create_device
  a_seat_name, \* argument: seat_name of path_create_device / change_seat
  a_device,    \* argument: the device of remove_device / change_seat
  dev,         \* the path_device being enabled (its devnode pointer) / loop cursor
  l_seat,      \* local seat of path_device_enable / libinput_path_remove_device
  l_device,    \* local device of path_device_enable
  sw,          \* cursors of path_input_disable: seat, tmp, device, next
  ret,         \* the value the API call returns
  pre,         \* history: registries when the API call started
  en_pre,      \* history: seat registry when the last path_device_enable started
  en_log,      \* history: what each path_device_enable of this call came to
  last,        \* history: whether the API call that returned last was suspend
  refs,        \* the devices the caller holds a reference on (libinput_device_ref)
  dangling,    \* history: the devices whose path record was freed
  moved        \* history: the suspend that returned last swept a non-default seat

vars == << path_list, seat_list, seat, device, pc, op, a_devnode, a_seat_name,
           a_device, dev, l_seat, l_device, sw, ret, pre, en_pre, en_log,
           last, refs, dangling, moved >>

args == << a_devnode, a_seat_name, a_device >>
aux == << refs, dangling, moved >>

\* ------------------------------------------------------------ list helpers
FreeSeat == [ physical_name |-> "", logical_name |-> "", refcount |-> 0,
              devices_list |-> << >> ]
FreeDev == [ devnode |-> NULL, seat |-> NULL ]
NoSw == [ seat |-> END, tmp |-> END, device |-> END, next |-> END ]
NoSnap == [ path_list |-> << >>, seat_list |-> << >>, seat |-> << >>,
            device |-> << >>, last |-> "other", dangling |-> {} ]
NoEnSnap == [ seat_list |-> << >>, seat |-> << >>, found |-> NULL, logical |-> "" ]

Range(s) == { s[i] : i \in 1..Len(s) }

\* list_remove: unlink one element
ListRemove(s, x) == SelectSeq(s, LAMBDA e : e # x)

\* the element after x (x->link.next), END at the list head
NextOf(s, x) ==
  LET idx == { i \in 1..Len(s) : s[i] = x }
  IN  IF idx = {} THEN END
      ELSE LET i == CHOOSE i \in idx : TRUE
           IN  IF i < Len(s) THEN s[i + 1] ELSE END

First(s) == IF s = << >> THEN END ELSE s[1]

MinOf(S) == CHOOSE x \in S : \A y \in S : x <= y

\* strrchr(devnode, '/') + 1, or "" when there is no separator
Sysname(str) ==
  LET idx == { i \in 1..Len(str) : str[i] = "/" }
  IN  IF idx = {} THEN << >>
      ELSE LET m == CHOOSE i \in idx : \A j \in idx : j <= i
           IN  SubSeq(str, m + 1, Len(str))

FreeAddrs == Addrs \ { path_list[i].devnode : i \in 1..Len(path_list) }
FreeSeatIds == { s \in SeatIds : seat[s] = FreeSeat }
FreeDevIds == { d \in DevIds : device[d] = FreeDev }
LiveDevs == DevIds \ FreeDevIds

Snapshot == [ path_list |-> path_list, seat_list |-> seat_list,
              seat |-> seat, device |-> device, last |-> last,
              dangling |-> dangling ]

\* ------------------------------------------------- seats (libinput core)
\* libinput_seat_ref
SeatRef(st, s) == [ st EXCEPT ![s].refcount = @ + 1 ]

\* libinput_seat_unref: the seat is unlinked and freed when the count drops to 0
SeatUnref(reg, s) ==
  IF reg.seat[s].refcount = 1
  THEN [ seat_list |-> ListRemove(reg.seat_list, s),
         seat |-> [ reg.seat EXCEPT ![s] = FreeSeat ] ]
  ELSE [ seat_list |-> reg.seat_list,
         seat |-> [ reg.seat EXCEPT ![s].refcount = @ - 1 ] ]

\* path_seat_get_named with a scan that never matches
path_seat_get_named_miss(sl, st, physical, logical) == NULL

\* path_seat_get_named comparing the physical name only
path_seat_get_named_physical(sl, st, physical, logical) ==
  LET m == SelectSeq(sl, LAMBDA s : st[s].physical_name = physical)
  IN  IF m = << >> THEN NULL ELSE m[1]

\* path_seat_get_named: first seat of seat_list with both names equal
path_seat_get_named(sl, st, physical, logical) ==
  LET m == SelectSeq(sl, LAMBDA s : st[s].physical_name = physical
                                    /\ st[s].logical_name = logical)
  IN  IF m = << >> THEN NULL ELSE m[1]

\* path_seat_create + libinput_seat_init: refcount 1, linked at the list head
path_seat_create(s, physical, logical) ==
  [ seat_list |-> << s >> \o seat_list,
    seat |-> [ seat EXCEPT ![s] = [ physical_name |-> physical,
                                    logical_name |-> logical,
                                    refcount |-> 1,
                                    devices_list |-> << >> ] ] ]

\* evdev_device_remove: unlink the device from its seat and drop the library's
\* reference on it; unless the caller holds a reference the device is destroyed
\* and the seat reference it held is dropped
evdev_device_remove(reg, dv, d) ==
  LET s == dv[d].seat
      st1 == [ reg.seat EXCEPT ![s].devices_list = ListRemove(@, d) ]
      r == SeatUnref([ seat_list |-> reg.seat_list, seat |-> st1 ], s)
  IN  IF d \in refs
      THEN [ seat_list |-> reg.seat_list, seat |-> st1, device |-> dv ]
      ELSE [ seat_list |-> r.seat_list, seat |-> r.seat,
             device |-> [ dv EXCEPT ![d] = FreeDev ] ]

\* the devices of dangling that still exist in dv
StillDangling(dv) == { d \in dangling : dv[d] # FreeDev }

\* path_disable_device whose scan skips the device it looks for
path_disable_device_skip(reg, dv, d) ==
  [ seat_list |-> reg.seat_list, seat |-> reg.seat, device |-> dv ]

\* path_disable_device: scan the device's seat for the device, remove it there
path_disable_device(reg, dv, d) ==
  LET s == dv[d].seat
  IN  IF d \in Range(reg.seat[s].devices_list)
      THEN evdev_device_remove(reg, dv, d)
      ELSE [ seat_list |-> reg.seat_list, seat |-> reg.seat, device |-> dv ]

Reg == [ seat_list |-> seat_list, seat |-> seat ]

\* ---------------------------------------------------------------- Init
Init ==
  /\ path_list = << >>
  /\ seat_list = << >>
  /\ seat = [ s \in SeatIds |-> FreeSeat ]
  /\ device = [ d \in DevIds |-> FreeDev ]
  /\ pc = "idle"
  /\ op = "none"
  /\ a_devnode = << >>
  /\ a_seat_name = NullStr
  /\ a_device = NULL
  /\ dev = NULL
  /\ l_seat = NULL
  /\ l_device = NULL
  /\ sw = NoSw
  /\ ret = 0
  /\ pre = NoSnap
  /\ en_pre = NoEnSnap
  /\ en_log = << >>
  /\ last = "other"
  /\ refs = {}
  /\ dangling = {}
  /\ moved = FALSE

\* ------------------------------------------------------ path_device_enable
PathPtrs == [ i \in 1..Len(path_list) |-> path_list[i].devnode ]

\* where path_device_enable returns to
EnableReturn == IF op = "resume" THEN "resume_check" ELSE "create_check"

\* evdev_device_create succeeding: the new device takes a seat reference and is
\* appended to the seat's device list; its devnode is the path record's pointer
evdev_device_create(st, dv, d, s, p) ==
  [ seat |-> [ st EXCEPT ![s].refcount = @ + 1,
                         ![s].devices_list = Append(@, d) ],
    device |-> [ dv EXCEPT ![d] = [ devnode |-> p, seat |-> s ] ] ]

\* path_device_enable ignoring the override
ResolveLogical_default(override) == default_seat_name

\* the logical seat name path_device_enable resolves
ResolveLogical(override) ==
  IF override # NullStr THEN override ELSE default_seat_name

\* lines 118-149: resolve the names, then find and ref the seat, or create it
EnableSeat ==
  /\ pc = "enable"
  /\ LET logical == ResolveLogical(a_seat_name)
         found == path_seat_get_named(seat_list, seat, default_seat, logical)
         snap == [ seat_list |-> seat_list, seat |-> seat, found |-> found,
                   logical |-> logical ]
     IN  \/ \* strdup of the default logical name fails (line 125): goto out
            /\ a_seat_name = NullStr
            /\ l_device' = NULL
            /\ pc' = EnableReturn
            /\ en_pre' = snap
            /\ en_log' = Append(en_log, "nomem")
            /\ UNCHANGED << seat_list, seat, l_seat >>
         \/ /\ found # NULL
            /\ seat' = SeatRef(seat, found)
            /\ l_seat' = found
            /\ l_device' = NULL
            /\ pc' = "enable_create"
            /\ en_pre' = snap
            /\ UNCHANGED << seat_list, en_log >>
         \/ /\ found = NULL
            /\ FreeSeatIds \cap SeatBlock(logical) # {}
            /\ LET s == MinOf(FreeSeatIds \cap SeatBlock(logical))
                   r == path_seat_create(s, default_seat, logical)
               IN  /\ seat_list' = r.seat_list
                   /\ seat' = r.seat
                   /\ l_seat' = s
            /\ l_device' = NULL
            /\ pc' = "enable_create"
            /\ en_pre' = snap
            /\ UNCHANGED en_log
  /\ UNCHANGED << path_list, device, op, args, dev, sw, ret, pre, last, aux >>

\* line 151: the adapter creates the device, fails, or declines the device
EnableCreate ==
  /\ pc = "enable_create"
  /\ \/ /\ Cardinality(LiveDevs) < MaxDevs
        /\ LET d == MinOf(FreeDevIds \cap DevBlock(dev))
               r == evdev_device_create(seat, device, d, l_seat, dev)
           IN  /\ seat' = r.seat
               /\ device' = r.device
               /\ l_device' = d
     \/ /\ l_device' \in { NULL, EVDEV_UNHANDLED_DEVICE }
        /\ UNCHANGED << seat, device >>
  /\ pc' = "enable_unref"
  /\ UNCHANGED << path_list, seat_list, op, args, dev, l_seat, sw, ret, pre,
                  en_pre, en_log, last, aux >>

\* path_device_enable returning the adapter's "unhandled" value as it is
EnableUnref_unhandled ==
  /\ pc = "enable_unref"
  /\ LET r == SeatUnref(Reg, l_seat)
     IN  /\ seat_list' = r.seat_list
         /\ seat' = r.seat
  /\ en_log' = Append(en_log, IF l_device = EVDEV_UNHANDLED_DEVICE THEN "unhandled"
                              ELSE IF l_device = NULL THEN "fail" ELSE "ok")
  /\ pc' = EnableReturn
  /\ UNCHANGED << path_list, device, op, args, dev, l_seat, l_device, sw, ret,
                  pre, en_pre, last, aux >>

\* path_device_enable returning without libinput_seat_unref
EnableUnref_leak ==
  /\ pc = "enable_unref"
  /\ l_device' = IF l_device = EVDEV_UNHANDLED_DEVICE THEN NULL ELSE l_device
  /\ en_log' = Append(en_log, IF l_device = EVDEV_UNHANDLED_DEVICE THEN "unhandled"
                              ELSE IF l_device = NULL THEN "fail" ELSE "ok")
  /\ pc' = EnableReturn
  /\ UNCHANGED << path_list, seat_list, seat, device, op, args, dev, l_seat, sw,
                  ret, pre, en_pre, last, aux >>

\* lines 152-176: drop the local seat reference, map "unhandled" to NULL
EnableUnref ==
  /\ pc = "enable_unref"
  /\ LET r == SeatUnref(Reg, l_seat)
     IN  /\ seat_list' = r.seat_list
         /\ seat' = r.seat
  /\ l_device' = IF l_device = EVDEV_UNHANDLED_DEVICE THEN NULL ELSE l_device
  /\ en_log' = Append(en_log, IF l_device = EVDEV_UNHANDLED_DEVICE THEN "unhandled"
                              ELSE IF l_device = NULL THEN "fail" ELSE "ok")
  /\ pc' = EnableReturn
  /\ UNCHANGED << path_list, device, op, args, dev, l_seat, sw, ret, pre,
                  en_pre, last, aux >>

\* ------------------------------------------------------ path_create_device
\* lines 217-227: allocate the record, link it at the head, enable it
CreateInsert ==
  /\ pc = "create"
  /\ LET p == MinOf(FreeAddrs)
     IN  /\ path_list' = << [ devnode |-> p, str |-> a_devnode,
                              sysname |-> Sysname(a_devnode) ] >> \o path_list
         /\ dev' = p
  /\ pc' = "enable"
  /\ UNCHANGED << seat_list, seat, device, op, args, l_seat, l_device, sw, ret,
                  pre, en_pre, en_log, last, aux >>

\* the record of path_list that is the struct path_device dev
UnlinkDev(pl, p) == SelectSeq(pl, LAMBDA r : r.devnode # p)

\* path_create_device leaving the record linked when the enable failed
CreateCheck_keep ==
  /\ pc = "create_check"
  /\ ret' = IF op = "add" THEN l_device
            ELSE IF l_device = NULL THEN -1 ELSE 0
  /\ pc' = "ret"
  /\ UNCHANGED << path_list, seat_list, seat, device, op, args, dev, l_seat,
                  l_device, sw, pre, en_pre, en_log, last, aux >>

\* path_device_change_seat with the test of its return inverted
CreateCheck_inverted ==
  /\ pc = "create_check"
  /\ path_list' = IF l_device = NULL THEN UnlinkDev(path_list, dev) ELSE path_list
  /\ ret' = IF op = "add" THEN l_device
            ELSE IF l_device = NULL THEN 0 ELSE -1
  /\ pc' = "ret"
  /\ UNCHANGED << seat_list, seat, device, op, args, dev, l_seat, l_device, sw,
                  pre, en_pre, en_log, last, aux >>

\* lines 229-235, and the caller's return (lines 253, 296)
CreateCheck ==
  /\ pc = "create_check"
  /\ path_list' = IF l_device = NULL THEN UnlinkDev(path_list, dev) ELSE path_list
  /\ ret' = IF op = "add" THEN l_device
            ELSE IF l_device = NULL THEN -1 ELSE 0
  /\ pc' = "ret"
  /\ UNCHANGED << seat_list, seat, device, op, args, dev, l_seat, l_device, sw,
                  pre, en_pre, en_log, last, aux >>

\* ------------------------------------------------ libinput_path_add_device
AddDevice(path) ==
  /\ pc = "idle"
  /\ Len(path_list) < MaxPaths
  /\ Cardinality(LiveDevs) < MaxDevs
  /\ op' = "add"
  /\ a_devnode' = path
  /\ a_seat_name' = NullStr
  /\ pre' = Snapshot
  /\ pc' = "create"
  /\ UNCHANGED << path_list, seat_list, seat, device, a_device, dev, l_seat,
                  l_device, sw, ret, en_pre, en_log, last, aux >>

\* ------------------------------------------------------ path_input_disable
SweepStart(sl) ==
  [ seat |-> First(sl), tmp |-> NextOf(sl, First(sl)),
    device |-> END, next |-> END ]

\* the seat loop entering the device loop without libinput_seat_ref
SweepSeat_noref ==
  /\ pc = "sweep_seat"
  /\ IF sw.seat = END
     THEN /\ pc' = "ret"
          /\ ret' = IF op = "resume" THEN -1 ELSE 0
          /\ sw' = NoSw
     ELSE /\ sw' = [ sw EXCEPT
                       !.device = First(seat[sw.seat].devices_list),
                       !.next = NextOf(seat[sw.seat].devices_list,
                                       First(seat[sw.seat].devices_list)) ]
          /\ pc' = "sweep_dev"
          /\ UNCHANGED ret
  /\ UNCHANGED << path_list, seat_list, seat, device, op, args, dev, l_seat,
                  l_device, pre, en_pre, en_log, last, aux >>

\* lines 61-62: loop test of the seat loop, then libinput_seat_ref
SweepSeat ==
  /\ pc = "sweep_seat"
  /\ IF sw.seat = END
     THEN /\ pc' = "ret"
          /\ ret' = IF op = "resume" THEN -1 ELSE 0
          /\ sw' = NoSw
          /\ UNCHANGED seat
     ELSE /\ seat' = SeatRef(seat, sw.seat)
          /\ sw' = [ sw EXCEPT
                       !.device = First(seat[sw.seat].devices_list),
                       !.next = NextOf(seat[sw.seat].devices_list,
                                       First(seat[sw.seat].devices_list)) ]
          /\ pc' = "sweep_dev"
          /\ UNCHANGED ret
  /\ UNCHANGED << path_list, seat_list, device, op, args, dev, l_seat, l_device,
                  pre, en_pre, en_log, last, aux >>

\* the device loop written with list_for_each: the next device is read from
\* the device just removed
SweepDevice_unsafe ==
  /\ pc = "sweep_dev"
  /\ IF sw.device = END
     THEN /\ pc' = "sweep_unref"
          /\ UNCHANGED << seat_list, seat, device, sw, dangling >>
     ELSE LET r == path_disable_device(Reg, device, sw.device)
              nxt == NextOf(r.seat[sw.seat].devices_list, sw.device)
          IN  /\ seat_list' = r.seat_list
              /\ seat' = r.seat
              /\ device' = r.device
              /\ dangling' = StillDangling(r.device)
              /\ sw' = [ sw EXCEPT
                           !.device = nxt,
                           !.next = NextOf(r.seat[sw.seat].devices_list, nxt) ]
              /\ pc' = "sweep_dev"
  /\ UNCHANGED << path_list, op, args, dev, l_seat, l_device, ret, pre, en_pre,
                  en_log, last, refs, moved >>

\* the device loop also unlinking the path record of each device it disables
SweepDevice_unlink ==
  /\ pc = "sweep_dev"
  /\ IF sw.device = END
     THEN /\ pc' = "sweep_unref"
          /\ UNCHANGED << path_list, seat_list, seat, device, sw, dangling >>
     ELSE LET r == path_disable_device(Reg, device, sw.device)
          IN  /\ path_list' = UnlinkDev(path_list, device[sw.device].devnode)
              /\ seat_list' = r.seat_list
              /\ seat' = r.seat
              /\ device' = r.device
              /\ dangling' = StillDangling(r.device)
              /\ sw' = [ sw EXCEPT
                           !.device = sw.next,
                           !.next = NextOf(r.seat[sw.seat].devices_list, sw.next) ]
              /\ pc' = "sweep_dev"
  /\ UNCHANGED << op, args, dev, l_seat, l_device, ret, pre, en_pre, en_log,
                  last, refs, moved >>

\* lines 63-65: loop test of the device loop, then path_disable_device
SweepDevice ==
  /\ pc = "sweep_dev"
  /\ IF sw.device = END
     THEN /\ pc' = "sweep_unref"
          /\ UNCHANGED << seat_list, seat, device, sw, dangling >>
     ELSE LET r == path_disable_device(Reg, device, sw.device)
          IN  /\ seat_list' = r.seat_list
              /\ seat' = r.seat
              /\ device' = r.device
              /\ dangling' = StillDangling(r.device)
              /\ sw' = [ sw EXCEPT
                           !.device = sw.next,
                           !.next = NextOf(r.seat[sw.seat].devices_list, sw.next) ]
              /\ pc' = "sweep_dev"
  /\ UNCHANGED << path_list, op, args, dev, l_seat, l_device, ret, pre, en_pre,
                  en_log, last, refs, moved >>

\* the seat loop written with list_for_each: the next seat is read from the
\* seat just unreferenced
SweepUnref_unsafe ==
  /\ pc = "sweep_unref"
  /\ LET r == SeatUnref(Reg, sw.seat)
         nxt == NextOf(r.seat_list, sw.seat)
     IN  /\ seat_list' = r.seat_list
         /\ seat' = r.seat
         /\ sw' = [ seat |-> nxt, tmp |-> NextOf(r.seat_list, nxt),
                    device |-> END, next |-> END ]
  /\ pc' = "sweep_seat"
  /\ UNCHANGED << path_list, device, op, args, dev, l_seat, l_device, ret, pre,
                  en_pre, en_log, last, aux >>

\* line 66: libinput_seat_unref, then advance the seat loop to tmp
SweepUnref ==
  /\ pc = "sweep_unref"
  /\ LET r == SeatUnref(Reg, sw.seat)
     IN  /\ seat_list' = r.seat_list
         /\ seat' = r.seat
         /\ sw' = [ seat |-> sw.tmp, tmp |-> NextOf(r.seat_list, sw.tmp),
                    device |-> END, next |-> END ]
  /\ pc' = "sweep_seat"
  /\ UNCHANGED << path_list, device, op, args, dev, l_seat, l_device, ret, pre,
                  en_pre, en_log, last, aux >>

\* the suspend entry of the backend table
Suspend ==
  /\ pc = "idle"
  /\ op' = "suspend"
  /\ pre' = Snapshot
  /\ sw' = SweepStart(seat_list)
  /\ pc' = "sweep_seat"
  /\ UNCHANGED << path_list, seat_list, seat, device, args, dev, l_seat,
                  l_device, ret, en_pre, en_log, last, aux >>

\* ------------------------------------------------------- path_input_enable
\* path_input_enable passing a seat name instead of NULL
Resume_named ==
  /\ pc = "idle"
  /\ Cardinality(LiveDevs) + Len(path_list) <= MaxDevs
  /\ op' = "resume"
  /\ pre' = Snapshot
  /\ a_seat_name' = "alt"
  /\ dev' = First(PathPtrs)
  /\ pc' = "resume_loop"
  /\ UNCHANGED << path_list, seat_list, seat, device, a_devnode, a_device,
                  l_seat, l_device, sw, ret, en_pre, en_log, last, aux >>

\* the resume entry of the backend table
Resume ==
  /\ pc = "idle"
  /\ Cardinality(LiveDevs) + Len(path_list) <= MaxDevs
  /\ op' = "resume"
  /\ pre' = Snapshot
  /\ a_seat_name' = NullStr
  /\ dev' = First(PathPtrs)
  /\ pc' = "resume_loop"
  /\ UNCHANGED << path_list, seat_list, seat, device, a_devnode, a_device,
                  l_seat, l_device, sw, ret, en_pre, en_log, last, aux >>

\* line 185: loop test; line 192: return 0
ResumeLoop ==
  /\ pc = "resume_loop"
  /\ IF dev = END
     THEN /\ ret' = 0
          /\ pc' = "ret"
     ELSE /\ pc' = "enable"
          /\ UNCHANGED ret
  /\ UNCHANGED << path_list, seat_list, seat, device, op, args, dev, l_seat,
                  l_device, sw, pre, en_pre, en_log, last, aux >>

\* path_input_enable leaving the loop after the first record it enabled
ResumeCheck_first ==
  /\ pc = "resume_check"
  /\ IF l_device = NULL
     THEN /\ sw' = SweepStart(seat_list)
          /\ pc' = "sweep_seat"
          /\ UNCHANGED dev
     ELSE /\ dev' = END
          /\ pc' = "resume_loop"
          /\ UNCHANGED sw
  /\ UNCHANGED << path_list, seat_list, seat, device, op, args, l_seat,
                  l_device, ret, pre, en_pre, en_log, last, aux >>

\* path_input_enable returning -1 without calling path_input_disable
ResumeCheck_norollback ==
  /\ pc = "resume_check"
  /\ IF l_device = NULL
     THEN /\ sw' = [ NoSw EXCEPT !.seat = END ]
          /\ pc' = "sweep_seat"
          /\ UNCHANGED dev
     ELSE /\ dev' = NextOf(PathPtrs, dev)
          /\ pc' = "resume_loop"
          /\ UNCHANGED sw
  /\ UNCHANGED << path_list, seat_list, seat, device, op, args, l_seat,
                  l_device, ret, pre, en_pre, en_log, last, aux >>

\* lines 186-189: on NULL disable everything and fail, else go to the next record
ResumeCheck ==
  /\ pc = "resume_check"
  /\ IF l_device = NULL
     THEN /\ sw' = SweepStart(seat_list)
          /\ pc' = "sweep_seat"
          /\ UNCHANGED dev
     ELSE /\ dev' = NextOf(PathPtrs, dev)
          /\ pc' = "resume_loop"
          /\ UNCHANGED sw
  /\ UNCHANGED << path_list, seat_list, seat, device, op, args, l_seat,
                  l_device, ret, pre, en_pre, en_log, last, aux >>

\* --------------------------------------------- libinput_path_remove_device
\* lines 313-320: unlink the first record whose devnode pointer is the device's
RemoveRecord(pl, p) ==
  LET idx == { i \in 1..Len(pl) : pl[i].devnode = p }
  IN  IF idx = {} THEN pl
      ELSE LET i == MinOf(idx)
           IN  SubSeq(pl, 1, i - 1) \o SubSeq(pl, i + 1, Len(pl))

\* the scan comparing against a pointer no record holds
RemoveUnlink_nomatch ==
  /\ pc = "remove_unlink"
  /\ pc' = "remove_ref"
  /\ UNCHANGED << path_list, seat_list, seat, device, op, args, dev, l_seat,
                  l_device, sw, ret, pre, en_pre, en_log, last, aux >>

RemoveUnlink ==
  /\ pc = "remove_unlink"
  /\ path_list' = RemoveRecord(path_list, device[a_device].devnode)
  /\ dangling' = IF device[a_device].devnode \in Range(PathPtrs)
                 THEN dangling \cup { d \in LiveDevs :
                                       device[d].devnode = device[a_device].devnode }
                 ELSE dangling
  /\ pc' = "remove_ref"
  /\ UNCHANGED << seat_list, seat, device, op, args, dev, l_seat, l_device, sw,
                  ret, pre, en_pre, en_log, last, refs, moved >>

\* lines 322-323
RemoveRef ==
  /\ pc = "remove_ref"
  /\ l_seat' = device[a_device].seat
  /\ seat' = SeatRef(seat, device[a_device].seat)
  /\ pc' = "remove_disable"
  /\ UNCHANGED << path_list, seat_list, device, op, args, dev, l_device, sw,
                  ret, pre, en_pre, en_log, last, aux >>

\* line 324
RemoveDisable ==
  /\ pc = "remove_disable"
  /\ LET r == path_disable_device(Reg, device, a_device)
     IN  /\ seat_list' = r.seat_list
         /\ seat' = r.seat
         /\ device' = r.device
         /\ dangling' = StillDangling(r.device)
  /\ pc' = "remove_unref"
  /\ UNCHANGED << path_list, op, args, dev, l_seat, l_device, sw, ret, pre,
                  en_pre, en_log, last, refs, moved >>

\* line 325, and the return to the caller
RemoveUnref ==
  /\ pc = "remove_unref"
  /\ LET r == SeatUnref(Reg, l_seat)
     IN  /\ seat_list' = r.seat_list
         /\ seat' = r.seat
  /\ IF op = "remove"
     THEN /\ pc' = "ret"
          /\ ret' = 0
     ELSE /\ pc' = "create"
          /\ UNCHANGED ret
  /\ UNCHANGED << path_list, device, op, args, dev, l_seat, l_device, sw, pre,
                  en_pre, en_log, last, aux >>

RemoveDevice(d) ==
  /\ pc = "idle"
  /\ d \in LiveDevs
  /\ op' = "remove"
  /\ a_device' = d
  /\ pre' = Snapshot
  /\ pc' = "remove_unlink"
  /\ UNCHANGED << path_list, seat_list, seat, device, a_devnode, a_seat_name,
                  dev, l_seat, l_device, sw, ret, en_pre, en_log, last, aux >>

\* ------------------------------------------------- path_device_change_seat
\* the string a devnode pointer points at; a pointer whose record was freed
\* reads whatever the freed memory holds
ReadString(p) ==
  LET hit == { i \in 1..Len(path_list) : path_list[i].devnode = p }
  IN  IF hit = {} THEN Devnodes ELSE { path_list[i].str : i \in hit }

ChangeSeat(d, name) ==
  /\ pc = "idle"
  /\ d \in LiveDevs
  /\ \/ Len(path_list) < MaxPaths
     \/ device[d].devnode \in Range(PathPtrs)
  /\ op' = "changeSeat"
  /\ a_device' = d
  /\ a_seat_name' = name
  /\ pre' = Snapshot
  /\ pc' = "change_seat"
  /\ UNCHANGED << path_list, seat_list, seat, device, a_devnode, dev, l_seat,
                  l_device, sw, ret, en_pre, en_log, last, aux >>

\* lines 246-249: duplicate the devnode, or fail with -1 before anything changed
ChangeSeatDup ==
  /\ pc = "change_seat"
  /\ \/ /\ ret' = -1
        /\ pc' = "ret"
        /\ UNCHANGED a_devnode
     \/ /\ a_devnode' \in ReadString(device[a_device].devnode)
        /\ pc' = "remove_unlink"
        /\ UNCHANGED ret
  /\ UNCHANGED << path_list, seat_list, seat, device, op, a_seat_name, a_device,
                  dev, l_seat, l_device, sw, pre, en_pre, en_log, last, aux >>

\* ------------------------------------------------------------------ return
\* the API call returns to the caller; the locals go out of scope
Return ==
  /\ pc = "ret"
  /\ pc' = "idle"
  /\ last' = IF op = "suspend" THEN "suspend" ELSE "other"
  /\ op' = "none"
  /\ a_devnode' = << >>
  /\ a_seat_name' = NullStr
  /\ a_device' = NULL
  /\ dev' = NULL
  /\ l_seat' = NULL
  /\ l_device' = NULL
  /\ sw' = NoSw
  /\ ret' = 0
  /\ pre' = NoSnap
  /\ en_pre' = NoEnSnap
  /\ en_log' = << >>
  /\ moved' = /\ op = "suspend"
              /\ \E s \in Range(pre.seat_list) :
                    pre.seat[s].logical_name # default_seat_name
  /\ UNCHANGED << path_list, seat_list, seat, device, refs, dangling >>

Step ==
  \/ CreateInsert \/ EnableSeat \/ EnableCreate \/ EnableUnref \/ CreateCheck
  \/ SweepSeat \/ SweepDevice \/ SweepUnref
  \/ ResumeLoop \/ ResumeCheck
  \/ RemoveUnlink \/ RemoveRef \/ RemoveDisable \/ RemoveUnref
  \/ ChangeSeatDup
  \/ Return

Call ==
  \/ \E path \in Devnodes : AddDevice(path)
  \/ \E d \in DevIds : RemoveDevice(d)
  \/ \E d \in DevIds, name \in LogicalNames : ChangeSeat(d, name)
  \/ Suspend
  \/ Resume

Next == Call \/ Step

Spec == Init /\ [][Next]_vars

\* every operation runs to completion once called
FairSpec == Spec /\ WF_vars(Step)

\* ----------------------------------------------- caller-held device handles
\* libinput_device_ref: the caller keeps a handle on an attached device
DeviceRef(d) ==
  /\ pc = "idle"
  /\ d \in LiveDevs
  /\ d \in UNION { Range(seat[s].devices_list) : s \in Range(seat_list) }
  /\ d \notin refs
  /\ refs' = refs \cup { d }
  /\ UNCHANGED << path_list, seat_list, seat, device, pc, op, args, dev, l_seat,
                  l_device, sw, ret, pre, en_pre, en_log, last, dangling, moved >>

\* libinput_device_unref: the caller drops the handle; a device that is no
\* longer attached is destroyed and releases its seat reference
DeviceUnref(d) ==
  /\ pc = "idle"
  /\ d \in refs
  /\ refs' = refs \ { d }
  /\ IF d \in UNION { Range(seat[s].devices_list) : s \in Range(seat_list) }
     THEN UNCHANGED << seat_list, seat, device, dangling >>
     ELSE LET r == SeatUnref(Reg, device[d].seat)
          IN  /\ seat_list' = r.seat_list
              /\ seat' = r.seat
              /\ device' = [ device EXCEPT ![d] = FreeDev ]
              /\ dangling' = dangling \ { d }
  /\ UNCHANGED << path_list, pc, op, args, dev, l_seat, l_device, sw, ret, pre,
                  en_pre, en_log, last, moved >>

Handle == \E d \in DevIds : DeviceRef(d) \/ DeviceUnref(d)

\* the program with a caller that may keep device handles across removal
HeldSpec == Init /\ [][Next \/ Handle]_vars

\* ================================================================ claims
SeatPair(st, s) == << st[s].physical_name, st[s].logical_name >>

\* the devices attached to a seat of the registry
Attached(sl, st) == UNION { Range(st[s].devices_list) : s \in Range(sl) }
AttachedDevs == Attached(seat_list, seat)

\* the seats of a registry that carry the pair
SeatsNamed(sl, st, pair) == { s \in Range(sl) : SeatPair(st, s) = pair }

\* ----------------------------------------------------------------- C1
\* C1: in every reachable state, whatever the calls made and whatever the
\* adapter answered, no two seats of the seat registry carry the same
\* (physical name, logical name) pair.
C1_SeatIdentityUnique ==
  \A i, j \in 1..Len(seat_list) :
    i # j => /\ seat_list[i] # seat_list[j]
             /\ SeatPair(seat, seat_list[i]) # SeatPair(seat, seat_list[j])

\* a second device was enabled for a pair that already had a seat: the
\* registry holds that one seat, with both devices
C1_Witness ==
  /\ pc = "idle"
  /\ \E s \in Range(seat_list) : Len(seat[s].devices_list) = 2

\* ----------------------------------------------------------------- C2
\* the pair an enable resolves: the default physical name, and the override
\* or the default logical name
EnablePair ==
  << "seat0", IF a_seat_name = NullStr THEN "default" ELSE a_seat_name >>

\* path_device_enable has returned a device
Enabled == pc \in { "create_check", "resume_check" } /\ l_device # NULL

C3_RemoveDestroysEmptySeat ==
  (pc = "ret" /\ op = "remove") =>
    LET s == pre.device[a_device].seat
        before == pre.seat[s].devices_list
    IN  IF before = << a_device >>
        THEN SeatsNamed(seat_list, seat, SeatPair(pre.seat, s)) = {}
        ELSE /\ s \in Range(seat_list)
             /\ SeatPair(seat, s) = SeatPair(pre.seat, s)
             /\ seat[s].devices_list = ListRemove(before, a_device)
             /\ seat[s].devices_list # << >>

\* the only device of a seat was removed, while another seat stays
C3_Witness ==
  /\ pc = "ret" /\ op = "remove"
  /\ pre.seat[pre.device[a_device].seat].devices_list = << a_device >>
  /\ Len(pre.seat_list) = 2
  /\ Len(seat_list) = 1

\* ----------------------------------------------------------------- C4
\* the devices attached to some seat whose devnode is the pointer p
DevsOf(p) == { d \in AttachedDevs : device[d].devnode = p }

\* C4: when a resume that directly follows a suspend returns 0, every
\* registered path record has exactly one attached device (the device's
\* devnode is the record's devnode), and every attached device belongs to a
\* registered record.
C4_ResumeAfterSuspend ==
  (pc = "ret" /\ op = "resume" /\ ret = 0 /\ pre.last = "suspend") =>
    /\ \A i \in 1..Len(path_list) :
         Cardinality(DevsOf(path_list[i].devnode)) = 1
    /\ \A d \in AttachedDevs : device[d].devnode \in Range(PathPtrs)
    /\ AttachedDevs = LiveDevs

\* two records were registered when the suspended context was resumed
C4_Witness ==
  /\ pc = "ret" /\ op = "resume" /\ ret = 0 /\ pre.last = "suspend"
  /\ Len(path_list) = 2
  /\ path_list[1].str # path_list[2].str

\* ----------------------------------------------------------------- C5
\* C5: when resume returns, it returned -1 and no device is attached to any
\* seat if some path_device_enable of this resume yielded no device; it
\* returned 0 only if every registered path was enabled and yielded a device.
C5_ResumeAllOrNothing ==
  (pc = "ret" /\ op = "resume") =>
    /\ ret \in { 0, -1 }
    /\ (\E i \in 1..Len(en_log) : en_log[i] # "ok") =>
         (ret = -1 /\ AttachedDevs = {} /\ LiveDevs = {})
    /\ ret = 0 =>
         /\ Len(en_log) = Len(path_list)
         /\ \A i \in 1..Len(en_log) : en_log[i] = "ok"
         /\ \A i \in 1..Len(path_list) : DevsOf(path_list[i].devnode) # {}

\* the first path was enabled, the second was not: the first device is gone
C5_Witness ==
  /\ pc = "ret" /\ op = "resume" /\ ret = -1
  /\ Len(en_log) = 2
  /\ en_log[1] = "ok"
  /\ AttachedDevs = {}

\* ----------------------------------------------------------------- C6
\* C6: a suspend, once called, returns, and when it returns no device is
\* attached to any seat of the context.
C6_SuspendCompletes ==
  (op = "suspend") ~> (pc = "ret" /\ op = "suspend" /\ AttachedDevs = {}
                       /\ LiveDevs = {})

\* suspend returned after sweeping two seats
C6_Witness ==
  /\ pc = "ret" /\ op = "suspend"
  /\ Len(pre.seat_list) = 2
  /\ Cardinality(Attached(pre.seat_list, pre.seat)) = 2
  /\ AttachedDevs = {}

\* ----------------------------------------------------------------- C7
\* C7: when addDevice returns null, the path registry and the seat registry
\* are what they were when it was called: the record is not registered, the
\* seats and their reference counts are the same.
C7_AddFailureRollsBack ==
  (pc = "ret" /\ op = "add" /\ ret = NULL) =>
    /\ path_list = pre.path_list
    /\ seat_list = pre.seat_list
    /\ seat = pre.seat
    /\ device = pre.device

\* a failed add next to a working device, and a failed add on an empty context
C7_Witness ==
  /\ pc = "ret" /\ op = "add" /\ ret = NULL
  /\ en_log \in { << "fail" >>, << "unhandled" >> }
  /\ Len(pre.path_list) = 1
  /\ Len(pre.seat_list) = 1

\* ----------------------------------------------------------------- C8
\* C8: when removeDevice returns, the path registry holds no record with the
\* device's devnode; a record enters the registry only in path_create_device,
\* and path_device_enable makes devices only from registered records, so no
\* later resume makes a device for the removed record.
C8_RemovePost ==
  (pc = "ret" /\ op = "remove") =>
    /\ pre.device[a_device].devnode \notin Range(PathPtrs)
    /\ path_list = SelectSeq(pre.path_list,
                     LAMBDA r : r.devnode # pre.device[a_device].devnode)

C8_EnableRegistered ==
  (pc = "enable_unref" /\ l_device \in DevIds) =>
    device[l_device].devnode \in Range(PathPtrs)

C8_RecordsOnlyCreated ==
  (\E p \in Addrs : p \notin Range(PathPtrs) /\ p \in Range(PathPtrs)')
    => pc = "create"

C8_RemoveUnregisters ==
  /\ [](C8_RemovePost /\ C8_EnableRegistered)
  /\ [][C8_RecordsOnlyCreated]_vars

\* one of two registered devices was removed, the other record stays
C8_Witness ==
  /\ pc = "ret" /\ op = "remove"
  /\ Len(pre.path_list) = 2
  /\ Len(path_list) = 1

\* ------------------------------------------------------------ C9, C10
\* the devnode string of the record the pointer p belongs to, in a path list
StrAt(pl, p) == { pl[i].str : i \in { j \in 1..Len(pl) : pl[j].devnode = p } }

\* the attached devices whose record holds the devnode string str
DevsWithStr(str) == { d \in AttachedDevs : str \in StrAt(path_list, device[d].devnode) }

\* the device changeSeat was called on, as it was at the call
OldPtr == pre.device[a_device].devnode
OldSeat == pre.device[a_device].seat
OldOthers == Attached(pre.seat_list, pre.seat) \ { a_device }

\* changeSeat has removed the old device and is about to create the new one
ChangeSeatRemoved ==
  (pc = "create" /\ op = "changeSeat") =>
    /\ a_device \notin AttachedDevs
    /\ device[a_device] = FreeDev
    /\ pre.seat[OldSeat].devices_list = << a_device >> =>
         (OldSeat \notin Range(seat_list) /\ seat[OldSeat] = FreeSeat)

\* C9 as stated: after a successful changeSeat exactly one attached device
\* has the original devnode, and it sits on the seat of the new logical name;
\* the old device and (if it held nothing else) the old seat are gone; the
\* number of path records is what it was.
C9_Original ==
  /\ ChangeSeatRemoved
  /\ (pc = "ret" /\ op = "changeSeat" /\ ret = 0) =>
       /\ \E n \in AttachedDevs :
            /\ DevsWithStr(a_devnode) = { n }
            /\ SeatPair(seat, device[n].seat) = << "seat0", a_seat_name >>
       /\ Len(path_list) = Len(pre.path_list)

\* C9 (amended): after a successful changeSeat exactly one device is new; it
\* is made from a fresh record at the head of the path registry that holds
\* the devnode string read from the old device, and it sits on the seat of
\* the new logical name; the old device and (if it held nothing else) the old
\* seat were destroyed before; every other device is attached where it was;
\* the path registry is the old one without the old device's record, plus the
\* fresh record.
C9_ChangeSeatMoves ==
  /\ ChangeSeatRemoved
  /\ (pc = "ret" /\ op = "changeSeat" /\ ret = 0) =>
       LET n == l_device
           s == device[n].seat
       IN  /\ n \in DevIds
           /\ s \in Range(seat_list)
           /\ n \in Range(seat[s].devices_list)
           /\ SeatPair(seat, s) = << "seat0", a_seat_name >>
           /\ AttachedDevs \ { n } = OldOthers
           /\ n \notin OldOthers
           /\ \A e \in OldOthers : device[e] = pre.device[e]
           /\ StrAt(pre.path_list, OldPtr) \in { {}, { a_devnode } }
           /\ path_list =
                << [ devnode |-> device[n].devnode, str |-> a_devnode,
                     sysname |-> Sysname(a_devnode) ] >>
                \o SelectSeq(pre.path_list, LAMBDA r : r.devnode # OldPtr)

\* the only device of the default seat was moved to "alt"
C9_Witness ==
  /\ pc = "ret" /\ op = "changeSeat" /\ ret = 0
  /\ a_seat_name = "alt"
  /\ pre.seat[OldSeat].logical_name = "default"
  /\ pre.seat[OldSeat].devices_list = << a_device >>
  /\ Len(seat_list) = 1
  /\ a_devnode = << "/", "dev", "/", "event3" >>
  /\ path_list[1].sysname = << "event3" >>

\* C10 as stated: changeSeat returns 0 iff the re-enable made a device; when
\* the re-enable failed, no attached device has that devnode and no record
\* with that devnode is registered.
C10_Original ==
  (pc = "ret" /\ op = "changeSeat") =>
    /\ ret = 0 <=> (en_log = << "ok" >>)
    /\ (ret = -1 /\ en_log # << >>) =>
         /\ DevsWithStr(a_devnode) = {}
         /\ \A i \in 1..Len(path_list) : path_list[i].str # a_devnode

\* C10 (amended): changeSeat returns 0 iff the re-enable made a device; when
\* the re-enable failed, the device changeSeat was called on is destroyed and
\* not replaced, every other device is attached where it was, and the path
\* registry is the old one without that device's record.
C10_ChangeSeatFailure ==
  (pc = "ret" /\ op = "changeSeat") =>
    /\ ret \in { 0, -1 }
    /\ ret = 0 <=> (en_log = << "ok" >>)
    /\ (ret = -1 /\ en_log # << >>) =>
         /\ Len(en_log) = 1
         /\ AttachedDevs = OldOthers
         /\ device = [ pre.device EXCEPT ![a_device] = FreeDev ]
         /\ path_list = SelectSeq(pre.path_list, LAMBDA r : r.devnode # OldPtr)
    /\ (ret = -1 /\ en_log = << >>) =>
         /\ path_list = pre.path_list
         /\ seat_list = pre.seat_list
         /\ seat = pre.seat
         /\ device = pre.device

\* the re-enable failed: the device is gone, the other device stays
C10_Witness ==
  /\ pc = "ret" /\ op = "changeSeat" /\ ret = -1
  /\ en_log \in { << "fail" >>, << "unhandled" >> }
  /\ Cardinality(OldOthers) = 1
  /\ AttachedDevs = OldOthers
  /\ Len(path_list) = 1

\* ------------------------------------------------------------------- C11
\* the call removed a device that was already detached from its seat and whose
\* path record had already been freed
SecondRemove ==
  /\ pc = "ret"
  /\ op = "remove"
  /\ a_device \in pre.dangling
  /\ a_device \notin Attached(pre.seat_list, pre.seat)

C12_AttachedSeatAlive ==
  /\ \A s \in SeatIds : \A d \in Range(seat[s].devices_list) :
        /\ device[d] # FreeDev
        /\ device[d].seat = s
        /\ s \in Range(seat_list)
        /\ seat[s].refcount >= 1
  /\ pc \in { "sweep_dev", "sweep_unref" } =>
        /\ sw.seat \in Range(seat_list)
        /\ seat[sw.seat].refcount >= 1
  /\ pc \in { "remove_disable", "remove_unref" } =>
        /\ l_seat \in Range(seat_list)
        /\ seat[l_seat].refcount >= 1

\* the sweep emptied a seat that the temporary reference alone keeps alive
C12_Witness ==
  /\ pc = "sweep_unref"
  /\ seat[sw.seat].devices_list = << >>
  /\ seat[sw.seat].refcount = 1
  /\ sw.seat \in Range(pre.seat_list)
  /\ Len(pre.seat[sw.seat].devices_list) = 2

\* ------------------------------------------------------------------- C13
\* C13: after any completed operation every seat in the registry has a
\* reference count equal to the number of devices attached to it, and at least
\* 1; no seat with an empty device list or a count of 0 is in the registry,
\* and no seat outside the registry is allocated.
C13_RefcountBalanced ==
  pc \in { "ret", "idle" } =>
    /\ \A s \in Range(seat_list) :
          /\ seat[s].refcount = Len(seat[s].devices_list)
          /\ seat[s].refcount >= 1
    /\ \A s \in SeatIds \ Range(seat_list) : seat[s] = FreeSeat

\* an operation that changed the seats returned leaving a seat with two devices
C13_Witness ==
  /\ pc = "ret"
  /\ pre.seat # seat
  /\ \E s \in Range(seat_list) : Len(seat[s].devices_list) = 2

\* ------------------------------------------------------------------- C14
\* C14: suspend, and a resume that fails and rolls back, leave the path
\* registry as it was: the same records in the same order, during the call
\* and when it returns.
C14_PathListKept ==
  op \in { "suspend", "resume" } => path_list = pre.path_list

\* a resume failed at its second record and swept the devices away, records kept
C14_Witness ==
  /\ pc = "ret"
  /\ op = "resume"
  /\ ret = -1
  /\ Len(path_list) = 2
  /\ Len(en_log) = 2
  /\ AttachedDevs = {}

\* ------------------------------------------------------------------- C15
\* a resume returned in which the adapter declined a device and no enable
\* failed for another reason
UnhandledOnly ==
  /\ pc = "ret"
  /\ op = "resume"
  /\ "unhandled" \in Range(en_log)
  /\ "fail" \notin Range(en_log)
  /\ "nomem" \notin Range(en_log)

\* the enables of this call that created a device
OkCount == Cardinality({ i \in 1..Len(en_log) : en_log[i] = "ok" })

\* C15: as claimed, "unhandled" is not an error: such a resume does not return
\* -1 and keeps the devices it enabled for the other paths.
C15_Original ==
  UnhandledOnly =>
    /\ ret # -1
    /\ Cardinality(AttachedDevs) >= OkCount

\* C15: as the code has it, "unhandled" makes path_device_enable return no
\* device, exactly like a creation failure: the resume stops at that record,
\* returns -1, and every device is disabled, the ones enabled for the other
\* paths included; the path records stay.
C15_UnhandledAborts ==
  (pc = "ret" /\ op = "resume" /\ "unhandled" \in Range(en_log)) =>
    /\ ret = -1
    /\ en_log[Len(en_log)] = "unhandled"
    /\ AttachedDevs = {}
    /\ LiveDevs = {}
    /\ path_list = pre.path_list

\* the first record was enabled, the adapter declined the second
C15_Witness ==
  /\ pc = "ret"
  /\ op = "resume"
  /\ en_log = << "ok", "unhandled" >>
  /\ ret = -1

\* ------------------------------------------------------------------- C16
\* C16: resume passes no seat name, so after a successful resume that follows
\* a suspend every enabled device is on the seat ("seat0", "default"), also
\* when a device had been moved to another seat before the suspend.
C16_ResumeOnDefaultSeat ==
  (pc = "ret" /\ op = "resume" /\ ret = 0 /\ pre.last = "suspend") =>
    \A d \in AttachedDevs :
      SeatPair(seat, device[d].seat) = << default_seat, default_seat_name >>

\* the suspend swept a seat other than "default"; the resume after it enabled
\* two devices
C16_Witness ==
  /\ pc = "ret"
  /\ op = "resume"
  /\ ret = 0
  /\ pre.last = "suspend"
  /\ moved
  /\ Cardinality(AttachedDevs) = 2

\* ------------------------------------------------------------------- C17
\* the attached devices created from the record whose devnode is at p
DevsOfRecord(p) == { d \in AttachedDevs \ dangling : device[d].devnode = p }

\* C17: in every reachable state each path record has at most one live device,
\* also after a resume that was not preceded by a suspend.
C17_OneDevicePerRecord ==
  \A i \in 1..Len(path_list) :
    Cardinality(DevsOfRecord(path_list[i].devnode)) <= 1

\* ------------------------------------------------------------------- C18
Sweeping == pc \in { "sweep_seat", "sweep_dev", "sweep_unref" }

\* the cursors of the sweep point at a seat in the registry and at a device
\* attached to it; the device loop leaves a seat only when it is empty; the
\* sweep ends with no device attached
C18_CursorsLive ==
  /\ (Sweeping /\ sw.seat # END) =>
        /\ sw.seat \in Range(seat_list)
        /\ seat[sw.seat] # FreeSeat
  /\ (pc = "sweep_dev" /\ sw.device # END) =>
        /\ device[sw.device] # FreeDev
        /\ sw.device \in Range(seat[sw.seat].devices_list)
  /\ pc = "sweep_unref" => seat[sw.seat].devices_list = << >>
  /\ (pc = "sweep_seat" /\ sw.seat = END) => AttachedDevs = {}

\* a step of the sweep disables the device under the cursor and no other, and
\* attaches none
C18_DisableOne ==
  Sweeping =>
    IF pc = "sweep_dev" /\ sw.device # END
    THEN /\ AttachedDevs' = AttachedDevs \ { sw.device }
         /\ LiveDevs' = LiveDevs \ { sw.device }
    ELSE /\ AttachedDevs' = AttachedDevs
         /\ LiveDevs' = LiveDevs

\* C18: the sweep of disableAll terminates; it disables every device that was
\* attached when it started exactly once and skips none, although devices and
\* emptied seats leave their lists while it iterates; its cursors never point
\* at a removed device or a destroyed seat.
C18_SweepVisitsAll ==
  /\ []C18_CursorsLive
  /\ [][C18_DisableOne]_vars
  /\ Sweeping ~> (pc = "ret" /\ AttachedDevs = {} /\ LiveDevs = {})

\* the sweep is at the second of two devices of one seat, the first is gone
C18_Witness ==
  /\ pc = "sweep_dev"
  /\ sw.device # END
  /\ sw.next = END
  /\ Len(seat[sw.seat].devices_list) = 1
  /\ Cardinality(Attached(pre.seat_list, pre.seat)) = 2
  /\ Len(pre.seat_list) = 1

\* ------------------------------------------------------------------- C19
\* C19: after any completed operation every attached device has a registered
\* path record with the same devnode; no device outlives the removal of its
\* path record.
C19_DeviceHasRecord ==
  pc \in { "ret", "idle" } =>
    \A d \in AttachedDevs :
      /\ d \notin dangling
      /\ device[d].devnode \in Range(PathPtrs)

\* ------------------------------------------------------------------- C20
\* the path records registered at the call that are not the record of the
\* device the call is about
OtherRecords ==
  IF a_device \in pre.dangling THEN Range(pre.path_list)
  ELSE Range(RemoveRecord(pre.path_list, OldPtr))

\* C20: changeSeat(d, name) and removeDevice(d) affect only d: when the call
\* returns, with success or failure, every other path record is registered,
\* every other device is attached to the seat it was on, and every seat that
\* held another device is in the registry under its names with its other
\* devices in their order.
C20_OthersUntouched ==
  (pc = "ret" /\ op \in { "remove", "changeSeat" }) =>
    /\ OtherRecords \subseteq Range(path_list)
    /\ \A d \in OldOthers :
          /\ d \in AttachedDevs
          /\ device[d] = pre.device[d]
    /\ \A s \in Range(pre.seat_list) :
          ListRemove(pre.seat[s].devices_list, a_device) # << >> =>
            /\ s \in Range(seat_list)
            /\ SeatPair(seat, s) = SeatPair(pre.seat, s)
            /\ SelectSeq(seat[s].devices_list, LAMBDA e : e \in OldOthers)
                 = ListRemove(pre.seat[s].devices_list, a_device)
====
